---- MODULE Spec2Model ----
(***************************************************************************)
(* Model of scriptPLE.py: the conversion of monthly accounting workbooks   *)
(* (sheet 5 "Libro Diario", sheet 6 "Plan de Cuentas") into the two PLE    *)
(* text files.  Text is modelled as sequences of one-character strings,    *)
(* cells of a sheet as tagged records, floats as hundredths.               *)
(***************************************************************************)
EXTENDS Integers, Sequences, FiniteSets, TLC

VARIABLES
    pc,            \* position of main(): "main", "done", "crashed"; "call"/"ret" for a single function
    n_archivos,    \* number of workbooks the glob of main() returned
    idx,           \* number of workbooks main() has handed to procesar_excel
    archivo,       \* the workbook of the last procesar_excel call
    log,           \* the last outcome procesar_excel logged
    pc_df,         \* the chart-of-accounts table after the build (lines 129-146)
    diario_lines,  \* the list diario_lines of the last call
    plan_lines,    \* the list plan_lines of the last call
    files,         \* OUTPUT_DIR: file name -> content (sequence of lines)
    ref_raw,       \* argument of parse_doc
    doc,           \* result of parse_doc
    pc_raw         \* sheet 6 as read, input of the chart build

vars == <<pc, n_archivos, idx, archivo, log, pc_df, diario_lines, plan_lines, files, ref_raw, doc, pc_raw>>

---------------------------------------------------------------------------
\* Bounds of the model

MaxRefLen == 5
MaxChart == 3
MaxRows == 2
MaxBatch == 2

---------------------------------------------------------------------------
\* Text: characters, code points, Python's str methods

\* the characters of code points 32..90
AsciiBajo == <<" ", "!", "\"", "#", "$", "%", "&", "'", "(", ")", "*", "+", ",", "-", ".", "/", "0", "1", "2", "3", "4", "5", "6", "7", "8", "9", ":", ";", "<", "=", ">", "?", "@", "A", "B", "C", "D", "E", "F", "G", "H", "I", "J", "K", "L", "M", "N", "O", "P", "Q", "R", "S", "T", "U", "V", "W", "X", "Y", "Z">>

Minusculas == <<"a", "b", "c", "d", "e", "f", "g", "h", "i", "j", "k", "l", "m", "n", "o", "p", "q", "r", "s", "t", "u", "v", "w", "x", "y", "z">>

Rango(s) == {s[i] : i \in 1..Len(s)}

\* ord(c), for the characters the model uses
OrdMap ==
    [c \in Rango(AsciiBajo) \cup Rango(Minusculas) |->
        IF \E i \in 1..Len(AsciiBajo) : AsciiBajo[i] = c
        THEN 31 + (CHOOSE i \in 1..Len(AsciiBajo) : AsciiBajo[i] = c)
        ELSE 96 + (CHOOSE i \in 1..Len(Minusculas) : Minusculas[i] = c)]

Ord(c) == OrdMap[c]

Mayusculas == <<"A", "B", "C", "D", "E", "F", "G", "H", "I", "J", "K", "L", "M", "N", "O", "P", "Q", "R", "S", "T", "U", "V", "W", "X", "Y", "Z">>

Digitos == <<"0", "1", "2", "3", "4", "5", "6", "7", "8", "9">>

DigitosSet == Rango(Digitos)

MayusculasSet == Rango(Mayusculas)

MinusculasSet == Rango(Minusculas)

IsDigit(c) == c \in DigitosSet

IsUpper(c) == c \in MayusculasSet

IsLower(c) == c \in MinusculasSet

UpperMap == [c \in MinusculasSet |-> Mayusculas[CHOOSE i \in 1..26 : Minusculas[i] = c]]

LowerMap == [c \in MayusculasSet |-> Minusculas[CHOOSE i \in 1..26 : Mayusculas[i] = c]]

UpperChar(c) == IF IsLower(c) THEN UpperMap[c] ELSE c

LowerChar(c) == IF IsUpper(c) THEN LowerMap[c] ELSE c

\* str.upper()
Upper(s) == [i \in 1..Len(s) |-> UpperChar(s[i])]

\* str.lower()
Lower(s) == [i \in 1..Len(s) |-> LowerChar(s[i])]

Blancos == {" ", "\t", "\n"}

\* str.lstrip()
LStrip(s) ==
    IF \A i \in 1..Len(s) : s[i] \in Blancos THEN <<>>
    ELSE SubSeq(s, CHOOSE i \in 1..Len(s) : s[i] \notin Blancos /\ \A j \in 1..(i - 1) : s[j] \in Blancos, Len(s))

\* str.rstrip()
RStrip(s) ==
    IF \A i \in 1..Len(s) : s[i] \in Blancos THEN <<>>
    ELSE SubSeq(s, 1, CHOOSE i \in 1..Len(s) : s[i] \notin Blancos /\ \A j \in (i + 1)..Len(s) : s[j] \in Blancos)

\* str.strip()
Strip(s) == RStrip(LStrip(s))

\* str.replace(a, b) for one-character a; b is a text (possibly empty)
RECURSIVE Replace(_, _, _)
Replace(s, a, b) ==
    IF s = <<>> THEN <<>>
    ELSE (IF Head(s) = a THEN b ELSE <<Head(s)>>) \o Replace(Tail(s), a, b)

\* str.lstrip(chars)
RECURSIVE LStripChars(_, _)
LStripChars(s, chars) ==
    IF s # <<>> /\ Head(s) \in chars THEN LStripChars(Tail(s), chars) ELSE s

\* str.rstrip(chars): drops every trailing character that is in chars
RECURSIVE RStripChars(_, _)
RStripChars(s, chars) ==
    IF s # <<>> /\ s[Len(s)] \in chars
    THEN RStripChars(SubSeq(s, 1, Len(s) - 1), chars)
    ELSE s

\* str.startswith
StartsWith(s, p) == Len(s) >= Len(p) /\ \A j \in 1..Len(p) : s[j] = p[j]

\* the operator "in" on two texts
Contains(s, sub) ==
    \E i \in 0..(Len(s) - Len(sub)) : \A j \in 1..Len(sub) : s[i + j] = sub[j]

\* str.isdigit()
IsDigitStr(s) == s # <<>> /\ \A i \in 1..Len(s) : IsDigit(s[i])

\* comparison of two str values, by code point
RECURSIVE StrLess(_, _)
StrLess(a, b) ==
    IF b = <<>> THEN FALSE
    ELSE IF a = <<>> THEN TRUE
    ELSE IF Head(a) = Head(b) THEN StrLess(Tail(a), Tail(b))
    ELSE Ord(Head(a)) < Ord(Head(b))

\* str(n) of a natural number
RECURSIVE Digits(_)
Digits(n) == IF n < 10 THEN <<Digitos[n + 1]>> ELSE Digits(n \div 10) \o <<Digitos[(n % 10) + 1]>>

\* the format {n:0wd} of a natural number
RECURSIVE ZeroPad(_, _)
ZeroPad(s, w) == IF Len(s) >= w THEN s ELSE ZeroPad(<<"0">> \o s, w)

Fmt0d(n, w) == ZeroPad(Digits(n), w)

Rep(c, n) == [i \in 1..n |-> c]

---------------------------------------------------------------------------
\* Cells of a sheet, as pandas hands them to the code

NaN == [t |-> "nan"]

Texto(s) == [t |-> "str", s |-> s]

Entero(n) == [t |-> "int", n |-> n]

\* a float, in hundredths
Flotante(c) == [t |-> "float", c |-> c]

\* a Timestamp
Fecha(y, m, d) == [t |-> "date", y |-> y, m |-> m, d |-> d]

\* pd.isna
isna(x) == x.t = "nan"

Abs(n) == IF n < 0 THEN -n ELSE n

\* str(x) of a float, x in hundredths: shortest repr, at least one decimal
StrFloat(c) ==
    LET a == Abs(c)
        frac == a % 100
    IN  (IF c < 0 THEN <<"-">> ELSE <<>>) \o Digits(a \div 100) \o <<".">> \o
        (IF frac % 10 = 0 THEN Digits(frac \div 10) ELSE Fmt0d(frac, 2))

\* str(x) of a cell
PyStr(x) ==
    CASE x.t = "nan" -> <<"n", "a", "n">>
      [] x.t = "str" -> x.s
      [] x.t = "int" -> (IF x.n < 0 THEN <<"-">> ELSE <<>>) \o Digits(Abs(x.n))
      [] x.t = "float" -> StrFloat(x.c)
      [] x.t = "date" -> Fmt0d(x.y, 4) \o <<"-">> \o Fmt0d(x.m, 2) \o <<"-">> \o Fmt0d(x.d, 2) \o <<" ", "0", "0", ":", "0", "0", ":", "0", "0">>

---------------------------------------------------------------------------
\* parse_doc

SerieMax == 10

NumeroMax == 20

SerieCompactaDigitos == 3

IsAlnumUpper(c) == IsUpper(c) \/ IsDigit(c)

\* position of the first "-" of ref, 0 when there is none
PrimerGuion(ref) ==
    IF \E i \in 1..Len(ref) : ref[i] = "-"
    THEN CHOOSE i \in 1..Len(ref) : ref[i] = "-" /\ \A j \in 1..(i - 1) : ref[j] # "-"
    ELSE 0

\* re.match(r"^([A-Z0-9]{1,10})[-](\d{1,20})$", ref): the two groups, or <<>>
MatchSerieNumero(ref) ==
    LET k == PrimerGuion(ref)
        g1 == SubSeq(ref, 1, k - 1)
        g2 == SubSeq(ref, k + 1, Len(ref))
    IN  IF /\ k > 0
           /\ Len(g1) \in 1..SerieMax
           /\ \A i \in 1..Len(g1) : IsAlnumUpper(g1[i])
           /\ Len(g2) \in 1..NumeroMax
           /\ \A i \in 1..Len(g2) : IsDigit(g2[i])
        THEN <<g1, g2>>
        ELSE <<>>

\* re.match(r"^([A-Z]{1}\d{3})(\d{1,20})$", ref): the two groups, or <<>>
MatchCompacto(ref) ==
    LET n == 1 + SerieCompactaDigitos
        g1 == SubSeq(ref, 1, n)
        g2 == SubSeq(ref, n + 1, Len(ref))
    IN  IF /\ Len(ref) > n
           /\ IsUpper(ref[1])
           /\ \A i \in 2..n : IsDigit(ref[i])
           /\ Len(g2) \in 1..NumeroMax
           /\ \A i \in 1..Len(g2) : IsDigit(g2[i])
        THEN <<g1, g2>>
        ELSE <<>>

\* s.lstrip("0"), the fallback "0" forgotten
SinCeros_sin_fallback(s) == LStripChars(s, {"0"})

\* s.lstrip("0") or "0"
SinCeros(s) == LET r == LStripChars(s, {"0"}) IN IF r = <<>> THEN <<"0">> ELSE r

parse_doc(x) ==
    IF isna(x) THEN <<<<>>, <<>>>>
    ELSE
    LET ref0 == Upper(Strip(PyStr(x))) IN
    IF ref0 = <<>> THEN <<<<>>, <<>>>>
    ELSE
    LET ref == Replace(Replace(ref0, "/", <<"-">>), " ", <<"-">>)
        m1 == MatchSerieNumero(ref)
        m2 == MatchCompacto(ref)
    IN  IF m1 # <<>> THEN <<m1[1], SinCeros(m1[2])>>
        ELSE IF m2 # <<>> THEN <<m2[1], SinCeros(m2[2])>>
        ELSE IF IsDigitStr(ref) THEN <<<<>>, SinCeros(ref)>>
        ELSE <<<<>>, <<"0">>>>

---------------------------------------------------------------------------
\* Generic utilities of the script

\* MESES, in the order of the dict
MESES == <<
    <<<<"E", "N", "E", "R", "O">>, <<"0", "1">>>>, <<<<"F", "E", "B", "R", "E", "R", "O">>, <<"0", "2">>>>, <<<<"M", "A", "R", "Z", "O">>, <<"0", "3">>>>, <<<<"A", "B", "R", "I", "L">>, <<"0", "4">>>>,
    <<<<"M", "A", "Y", "O">>, <<"0", "5">>>>, <<<<"J", "U", "N", "I", "O">>, <<"0", "6">>>>, <<<<"J", "U", "L", "I", "O">>, <<"0", "7">>>>, <<<<"A", "G", "O", "S", "T", "O">>, <<"0", "8">>>>,
    <<<<"S", "E", "T", "I", "E", "M", "B", "R", "E">>, <<"0", "9">>>>, <<<<"S", "E", "P", "T", "I", "E", "M", "B", "R", "E">>, <<"0", "9">>>>, <<<<"O", "C", "T", "U", "B", "R", "E">>, <<"1", "0">>>>,
    <<<<"N", "O", "V", "I", "E", "M", "B", "R", "E">>, <<"1", "1">>>>, <<<<"D", "I", "C", "I", "E", "M", "B", "R", "E">>, <<"1", "2">>>> >>

\* extraer_mes_archivo: the code of the first month of MESES found in the name, <<>> for None
extraer_mes_archivo(nombre) ==
    LET upper == Upper(nombre)
        hits == {i \in 1..Len(MESES) : Contains(upper, MESES[i][1])}
    IN  IF hits = {} THEN <<>>
        ELSE MESES[CHOOSE i \in hits : \A j \in hits : i <= j][2]

\* int(mes) for the two-digit month code
IntMes(mes) ==
    (CHOOSE i \in 1..10 : Digitos[i] = mes[1]) * 10 + (CHOOSE i \in 1..10 : Digitos[i] = mes[2]) - 11

EsBisiesto(anno) == (anno % 4 = 0 /\ anno % 100 # 0) \/ anno % 400 = 0

\* ultimo_dia_mes: calendar.monthrange(anno, mes)[1]
ultimo_dia_mes(anno, mes) ==
    IF mes = 2 THEN (IF EsBisiesto(anno) THEN 29 ELSE 28)
    ELSE IF mes \in {4, 6, 9, 11} THEN 30
    ELSE 31

\* normalizar_codigo
normalizar_codigo(codigo) ==
    IF isna(codigo) THEN <<>>
    ELSE IF codigo.t = "float" /\ codigo.c % 100 = 0
    THEN (IF codigo.c < 0 THEN <<"-">> ELSE <<>>) \o Digits(Abs(codigo.c) \div 100)
    ELSE Upper(Replace(Strip(PyStr(codigo)), " ", <<>>))

\* re.sub(r"\s+", " ", s): every run of whitespace becomes one space
UnEspacio(s) ==
    LET Primero(i) == s[i] \notin Blancos \/ i = 1 \/ s[i - 1] \notin Blancos
        quedan == SelectSeq([i \in 1..Len(s) |-> i], Primero)
    IN  [k \in 1..Len(quedan) |-> IF s[quedan[k]] \in Blancos THEN " " ELSE s[quedan[k]]]

\* canon
canon(col) == Strip(UnEspacio(Lower(col)))

\* [canon(c) for c in columns]
CanonColumnas(columns) == [i \in 1..Len(columns) |-> canon(columns[i])]

\* the search of buscar_columna over the canon names cs of the columns: the
\* position of the first that holds every keyword, 0 for None
BuscarCanon(cs, keywords) ==
    LET kws == [k \in 1..Len(keywords) |-> canon(keywords[k])]
        hits == {i \in 1..Len(cs) : \A k \in 1..Len(kws) : Contains(cs[i], kws[k])}
    IN  IF hits = {} THEN 0 ELSE CHOOSE i \in hits : \A j \in hits : i <= j

\* buscar_columna, the column as a position (column names of a DataFrame read
\* from a sheet are unique)
buscar_columna(columns, keywords) == BuscarCanon(CanonColumnas(columns), keywords)

---------------------------------------------------------------------------
\* Plan de cuentas (lines 119-146)

\* col_cuenta_pc, as a position; a position beyond the columns is an IndexError
ColCuentaPC(columns) ==
    LET b == buscar_columna(columns, <<<<"c", "u", "e", "n", "t", "a", " ", "p", "e", "r", "u", "a", "n", "a">>>>)
    IN  IF b # 0 THEN b ELSE 3

\* col_nombre_cuenta, as a position
ColNombreCuenta(columns) ==
    LET b == buscar_columna(columns, <<<<"n", "o", "m", "b", "r", "e">>, <<"c", "u", "e", "n", "t", "a">>, <<"c", "o", "n", "t", "a", "b", "l", "e">>>>)
    IN  IF b # 0 THEN b ELSE IF Len(columns) > 3 THEN 4 ELSE 2

\* fillna("") on one cell
FillNa(x) == IF isna(x) THEN Texto(<<>>) ELSE x

\* nombre_temp of a row: astype(str), strip
NombreTemp(r, cn) == Strip(PyStr(r.celdas[cn]))

\* the order of sort_values(by=[codigo_cuenta, name_len], ascending=[True, False]),
\* name_len ascending by mistake
AntesQue_ascendente(a, b, cn) ==
    \/ StrLess(a.codigo_cuenta, b.codigo_cuenta)
    \/ a.codigo_cuenta = b.codigo_cuenta /\ Len(NombreTemp(a, cn)) < Len(NombreTemp(b, cn))

\* the order of sort_values(by=[codigo_cuenta, name_len], ascending=[True, False])
AntesQue(a, b, cn) ==
    \/ StrLess(a.codigo_cuenta, b.codigo_cuenta)
    \/ a.codigo_cuenta = b.codigo_cuenta /\ Len(NombreTemp(a, cn)) > Len(NombreTemp(b, cn))

\* r put into the sorted s, behind the rows it does not precede (the sort on
\* several keys is stable)
RECURSIVE Insertar(_, _, _)
Insertar(s, r, cn) ==
    IF s = <<>> THEN <<r>>
    ELSE IF AntesQue(r, Head(s), cn) THEN <<r>> \o s
    ELSE <<Head(s)>> \o Insertar(Tail(s), r, cn)

RECURSIVE SortValues(_, _)
SortValues(rows, cn) ==
    IF rows = <<>> THEN <<>>
    ELSE Insertar(SortValues(SubSeq(rows, 1, Len(rows) - 1), cn), rows[Len(rows)], cn)

\* drop_duplicates(subset=["codigo_cuenta"], keep="first")
RECURSIVE DropDuplicates(_)
DropDuplicates(rows) ==
    IF rows = <<>> THEN <<>>
    ELSE LET antes == DropDuplicates(SubSeq(rows, 1, Len(rows) - 1))
             r == rows[Len(rows)]
         IN  IF \E i \in 1..Len(antes) : antes[i].codigo_cuenta = r.codigo_cuenta
             THEN antes
             ELSE Append(antes, r)

CodigoNoVacio(r) == r.codigo_cuenta # <<>>

\* pc_df after lines 129-146: each row keeps its index label and its cells
PlanDeCuentas(sheet) ==
    LET cc == ColCuentaPC(sheet.columns)
        cn == ColNombreCuenta(sheet.columns)
        llenas == [i \in 1..Len(sheet.rows) |->
                      [j \in 1..Len(sheet.rows[i]) |-> FillNa(sheet.rows[i][j])]]
        con_codigo == [i \in 1..Len(llenas) |->
                          [idx |-> i - 1,
                           celdas |-> llenas[i],
                           codigo_cuenta |-> normalizar_codigo(llenas[i][cc])]]
    IN  DropDuplicates(SortValues(SelectSeq(con_codigo, CodigoNoVacio), cn))

---------------------------------------------------------------------------
\* Libro diario: columns (lines 149-168)

\* "Description.1" in diario_df.columns, as a position
PosicionDe(columns, nombre) ==
    IF \E i \in 1..Len(columns) : columns[i] = nombre
    THEN CHOOSE i \in 1..Len(columns) : columns[i] = nombre
    ELSE 0

\* a or b, for two results of buscar_columna
OrCol(a, b) == IF a # 0 THEN a ELSE b

\* the columns of the diario (lines 149-160), each a position, 0 for None; the
\* canon names of the columns are taken once for all the searches
ColumnasDiario(columns) ==
    LET cs == CanonColumnas(columns)
        d1 == PosicionDe(columns, <<"D", "e", "s", "c", "r", "i", "p", "t", "i", "o", "n", ".", "1">>)
    IN  [cuenta |-> BuscarCanon(cs, <<<<"c", "u", "e", "n", "t", "a", " ", "p", "e", "r", "u", "a", "n", "a">>>>),
         fecha |-> BuscarCanon(cs, <<<<"t", "r", "a", "n", "s", "a", "c", "t", "i", "o", "n", " ", "d", "a", "t", "e">>>>),
         glosa |-> IF d1 # 0 THEN d1 ELSE BuscarCanon(cs, <<<<"d", "e", "s", "c", "r", "i", "p", "t", "i", "o", "n">>>>),
         debe_credit |-> BuscarCanon(cs, <<<<"d", "e", "b", "i", "t", "/", "c", "r", "e", "d", "i", "t">>>>),
         monto |-> OrCol(BuscarCanon(cs, <<<<"t", "r", "a", "n", "s", "a", "c", "t", "i", "o", "n", " ", "a", "m", "o", "u", "n", "t">>>>),
                         BuscarCanon(cs, <<<<"b", "a", "s", "e", " ", "a", "m", "o", "u", "n", "t">>>>)),
         journal_num |-> BuscarCanon(cs, <<<<"j", "o", "u", "r", "n", "a", "l", " ", "n", "u", "m", "b", "e", "r">>>>),
         journal_type |-> BuscarCanon(cs, <<<<"j", "o", "u", "r", "n", "a", "l", " ", "t", "y", "p", "e">>>>),
         currency |-> BuscarCanon(cs, <<<<"t", "r", "a", "n", "s", "a", "c", "t", "i", "o", "n", " ", "c", "u", "r", "r", "e", "n", "c", "y", " ", "c", "o", "d", "e">>>>),
         ref_doc |-> BuscarCanon(cs, <<<<"t", "r", "a", "n", "s", "a", "c", "t", "i", "o", "n", " ", "r", "e", "f", "e", "r", "e", "n", "c", "e">>>>)]

\* the list "required" with col_glosa left out
Requeridas_sin_glosa(col) ==
    <<col.cuenta, col.fecha, col.monto, col.journal_num, col.journal_type>>

\* the list "required" (line 162)
Requeridas(col) ==
    <<col.cuenta, col.fecha, col.glosa, col.monto, col.journal_num, col.journal_type>>

\* any(c is None for c in required)
FaltanColumnas(col) == \E i \in 1..Len(Requeridas(col)) : Requeridas(col)[i] = 0

---------------------------------------------------------------------------
\* Libro diario: one row (lines 180-293)

ANIO == 2020

\* row.get(col, default): the default when col is None
Get(row, col, default) == IF col = 0 THEN default ELSE row[col]

\* a float: nan, or a number of hundredths
FNaN == [nan |-> TRUE, c |-> 0]

FNum(c) == [nan |-> FALSE, c |-> c]

\* the value of a text of digits
RECURSIVE ValorDigitos(_)
ValorDigitos(s) ==
    IF s = <<>> THEN 0
    ELSE 10 * ValorDigitos(SubSeq(s, 1, Len(s) - 1))
         + (CHOOSE i \in 0..9 : Digitos[i + 1] = s[Len(s)])

\* float(s) of a text: an optional sign, digits and at most two decimals are
\* read; any other text of the model's inputs is a ValueError, <<>>
FloatDeTexto(s0) ==
    LET s == Strip(s0)
        neg == s # <<>> /\ s[1] = "-"
        u == IF s # <<>> /\ s[1] \in {"-", "+"} THEN Tail(s) ELSE s
        p == PosicionDe(u, ".")
        ent == IF p = 0 THEN u ELSE SubSeq(u, 1, p - 1)
        dec == IF p = 0 THEN <<>> ELSE SubSeq(u, p + 1, Len(u))
    IN  IF /\ Len(ent) + Len(dec) > 0
           /\ Len(dec) <= 2
           /\ \A i \in 1..Len(ent) : IsDigit(ent[i])
           /\ \A i \in 1..Len(dec) : IsDigit(dec[i])
        THEN <<FNum((IF neg THEN -1 ELSE 1) *
                    (100 * ValorDigitos(ent) + ValorDigitos(dec \o Rep("0", 2 - Len(dec)))))>>
        ELSE <<>>

\* monto_raw (lines 228-231): float(x), 0.0 on a ValueError
MontoRaw(x) ==
    CASE x.t = "nan" -> FNaN
      [] x.t = "int" -> FNum(100 * x.n)
      [] x.t = "float" -> FNum(x.c)
      [] x.t = "str" -> IF FloatDeTexto(x.s) = <<>> THEN FNum(0) ELSE FloatDeTexto(x.s)[1]

\* abs(x) of a float
FAbs(x) == IF x.nan THEN x ELSE FNum(Abs(x.c))

\* x > 0 of a float: false for nan
FPos(x) == ~x.nan /\ x.c > 0

\* (monto_raw, 0.0) if monto_raw > 0 else (0.0, abs(monto_raw))
PorSigno(m) == IF FPos(m) THEN <<m, FNum(0)>> ELSE <<FNum(0), FAbs(m)>>

\* debe, haber (lines 233-242); col_debe_credit = 0 when the column is missing
DebeHaber(m, col_debe_credit, row) ==
    IF col_debe_credit # 0
    THEN LET flag == Upper(Strip(PyStr(row[col_debe_credit])))
         IN  IF StartsWith(flag, <<"D">>) THEN <<FAbs(m), FNum(0)>>
             ELSE IF StartsWith(flag, <<"C">>) THEN <<FNum(0), FAbs(m)>>
             ELSE PorSigno(m)
    ELSE PorSigno(m)

\* the format {x:.2f}
Fmt2f(x) ==
    IF x.nan THEN <<"n", "a", "n">>
    ELSE (IF x.c < 0 THEN <<"-">> ELSE <<>>) \o Digits(Abs(x.c) \div 100) \o <<".">> \o Fmt0d(Abs(x.c) % 100, 2)

\* pd.to_datetime(x, errors="coerce") of a Timestamp, an empty cell or a text
\* that is no date: the Timestamp, or NaT
ToDatetime(x) == IF x.t = "date" THEN x ELSE NaN

\* strftime("%d/%m/%Y")
StrfDMY(f) == Fmt0d(f.d, 2) \o <<"/">> \o Fmt0d(f.m, 2) \o <<"/">> \o Digits(f.y)

\* estado, fecha_str, periodo_linea with every line attributed to the declared period
Clasificar_sin_atrasos(fecha_oper, mes, dia_final) ==
    [estado |-> <<"1">>,
     fecha_str |-> IF isna(fecha_oper) \/ fecha_oper.y # ANIO \/ fecha_oper.m > IntMes(mes)
                   THEN Fmt0d(dia_final, 2) \o <<"/">> \o mes \o <<"/">> \o Digits(ANIO)
                   ELSE StrfDMY(fecha_oper),
     periodo_linea |-> Digits(ANIO) \o mes \o <<"0", "0">>]

\* estado, fecha_str, periodo_linea (lines 197-225)
Clasificar(fecha_oper, mes, dia_final) ==
    LET fecha_target_str == Fmt0d(dia_final, 2) \o <<"/">> \o mes \o <<"/">> \o Digits(ANIO)
        periodo_diario == Digits(ANIO) \o mes \o <<"0", "0">>
    IN  IF isna(fecha_oper)
        THEN [estado |-> <<"1">>, fecha_str |-> fecha_target_str, periodo_linea |-> periodo_diario]
        ELSE IF fecha_oper.y = ANIO
        THEN IF fecha_oper.m < IntMes(mes)
             THEN [estado |-> <<"8">>, fecha_str |-> StrfDMY(fecha_oper),
                   periodo_linea |-> Digits(ANIO) \o Fmt0d(fecha_oper.m, 2) \o <<"0", "0">>]
             ELSE IF fecha_oper.m = IntMes(mes)
             THEN [estado |-> <<"1">>, fecha_str |-> StrfDMY(fecha_oper), periodo_linea |-> periodo_diario]
             ELSE [estado |-> <<"1">>, fecha_str |-> fecha_target_str, periodo_linea |-> periodo_diario]
        ELSE IF fecha_oper.y < ANIO
             THEN [estado |-> <<"8">>, fecha_str |-> StrfDMY(fecha_oper),
                   periodo_linea |-> Digits(fecha_oper.y) \o Fmt0d(fecha_oper.m, 2) \o <<"0", "0">>]
             ELSE [estado |-> <<"1">>, fecha_str |-> fecha_target_str, periodo_linea |-> periodo_diario]

\* moneda (lines 245-253)
Moneda(col_currency, row) ==
    IF col_currency = 0 THEN <<"P", "E", "N">>
    ELSE LET moneda_val == Upper(Strip(PyStr(Get(row, col_currency, Texto(<<>>)))))
         IN  IF StartsWith(moneda_val, <<"U", "S", "D">>) THEN <<"U", "S", "D">>
             ELSE IF StartsWith(moneda_val, <<"P", "E", "N">>) \/ StartsWith(moneda_val, <<"S", "O", "L">>) THEN <<"P", "E", "N">>
             ELSE IF moneda_val # <<>> THEN SubSeq(moneda_val, 1, IF Len(moneda_val) < 3 THEN Len(moneda_val) ELSE 3)
             ELSE <<"P", "E", "N">>

\* tipo_cmp (lines 257-264)
TipoCmp(serie_doc) ==
    IF StartsWith(serie_doc, <<"F">>) THEN <<"0", "1">>
    ELSE IF StartsWith(serie_doc, <<"B">>) THEN <<"0", "3">>
    ELSE IF StartsWith(serie_doc, <<"T">>) THEN <<"1", "2">>
    ELSE <<"0", "0">>

\* correlativo (lines 192-194)
Correlativo(jnum_raw) ==
    <<"M">> \o (IF isna(jnum_raw) THEN <<>> ELSE RStripChars(PyStr(jnum_raw), {".", "0"}))

\* cuo (line 189)
Cuo(j_type, n) == j_type \o Fmt0d(n, 3)

\* the list "line" of an eligible row (lines 273-292): its 21 fields
Linea(row, col, mes, dia_final, cuenta, j_type, n) ==
    LET cl == Clasificar(ToDatetime(row[col.fecha]), mes, dia_final)
        dh == DebeHaber(MontoRaw(Get(row, col.monto, Entero(0))), col.debe_credit, row)
        sn == IF col.ref_doc # 0 THEN parse_doc(Get(row, col.ref_doc, Texto(<<>>))) ELSE <<<<>>, <<>>>>
        tipo_cmp == TipoCmp(sn[1])
        num_doc == IF tipo_cmp # <<"0", "0">> /\ sn[2] = <<>> THEN <<"0">> ELSE sn[2]
        glosa_val == Strip(PyStr(Get(row, col.glosa, Texto(<<>>))))
    IN  <<cl.periodo_linea, Cuo(j_type, n), Correlativo(row[col.journal_num]), cuenta,
          <<>>, <<>>, Moneda(col.currency, row), <<>>, <<>>, tipo_cmp, sn[1], num_doc, <<>>, <<>>,
          cl.fecha_str, glosa_val, <<>>, Fmt2f(dh[1]), Fmt2f(dh[2]), <<>>, cl.estado>>

\* a row is skipped (line 182), every row taken by mistake
Omitida_nunca(cuenta, cuentas_validas) == FALSE

\* a row is skipped (line 182)
Omitida(cuenta, cuentas_validas) == cuenta = <<>> \/ cuenta \notin cuentas_validas

\* correlativos_tipo[j_type] after += 1, on a defaultdict(int)
Contar(correlativos_tipo, j_type) ==
    IF j_type \in DOMAIN correlativos_tipo THEN correlativos_tipo[j_type] + 1 ELSE 1

\* the loop over diario_df (lines 180-293): diario_lines, as lists of fields
RECURSIVE Recorrer(_, _, _, _, _, _, _)
Recorrer(rows, col, mes, dia_final, cuentas_validas, correlativos_tipo, lines) ==
    IF rows = <<>> THEN lines
    ELSE
    LET row == Head(rows)
        cuenta == normalizar_codigo(row[col.cuenta])
    IN  IF Omitida(cuenta, cuentas_validas)
        THEN Recorrer(Tail(rows), col, mes, dia_final, cuentas_validas, correlativos_tipo, lines)
        ELSE
        LET j_type == Upper(Strip(PyStr(row[col.journal_type])))
            n == Contar(correlativos_tipo, j_type)
        IN  Recorrer(Tail(rows), col, mes, dia_final, cuentas_validas,
                     (j_type :> n) @@ correlativos_tipo,
                     Append(lines, Linea(row, col, mes, dia_final, cuenta, j_type, n)))

---------------------------------------------------------------------------
\* Values the variables of main() hold while a single function is exercised

NoArchivo == [nombre |-> <<>>]

MainIdle ==
    /\ n_archivos = 0
    /\ idx = 0
    /\ archivo = NoArchivo
    /\ log = "none"
    /\ diario_lines = <<>>
    /\ plan_lines = <<>>
    /\ files = <<>>

MainUnchanged == UNCHANGED <<n_archivos, idx, archivo, log, diario_lines, plan_lines, files>>

---------------------------------------------------------------------------
\* procesar_excel (lines 101-312)

RUC == <<"2", "0", "4", "7", "0", "5", "2", "6", "3", "7", "9">>

\* "|".join(line) + "|"
RECURSIVE JoinLinea(_)
JoinLinea(line) == IF line = <<>> THEN <<>> ELSE Head(line) \o <<"|">> \o JoinLinea(Tail(line))

\* "\n".join(lines) of the joined lines
RECURSIVE Contenido(_)
Contenido(lines) ==
    IF lines = <<>> THEN <<>>
    ELSE IF Len(lines) = 1 THEN JoinLinea(lines[1])
    ELSE JoinLinea(Head(lines)) \o <<"\n">> \o Contenido(Tail(lines))

\* archivo_diario and archivo_plan (lines 295, 309)
ArchivoDiario(mes) == <<"L", "E">> \o RUC \o Digits(ANIO) \o mes \o <<"0", "0", "0", "5", "0", "1", "0", "0", "0", "0", "1", "1", "1", "1", ".", "t", "x", "t">>

ArchivoPlan(mes) == <<"L", "E">> \o RUC \o Digits(ANIO) \o mes \o <<"0", "0", "0", "5", "0", "3", "0", "0", "0", "0", "1", "1", "1", "1", ".", "t", "x", "t">>

\* the loop over pc_df (lines 300-307) with the last entry left out
PlanLines_sin_ultima(pcdf, cn, periodo_plan) ==
    [i \in 1..(Len(pcdf) - 1) |->
        <<periodo_plan, pcdf[i].codigo_cuenta, NombreTemp(pcdf[i], cn), <<"0", "1">>, <<>>, <<>>, <<>>, <<"1">>, <<>>>>]

\* the loop over pc_df (lines 300-307): plan_lines, as lists of fields
PlanLines(pcdf, cn, periodo_plan) ==
    [i \in 1..Len(pcdf) |->
        <<periodo_plan, pcdf[i].codigo_cuenta, NombreTemp(pcdf[i], cn), <<"0", "1">>, <<>>, <<>>, <<>>, <<"1">>, <<>>>>]

\* Path.write_text: the file system after the call, and whether it raised.
\* "ok" writes; "error" fails on opening and leaves the file as it was;
\* "truncado" fails after the file was opened for writing and leaves it empty.
WriteText(fs, nombre, texto, falla) ==
    CASE falla = "ok" -> [files |-> (nombre :> texto) @@ fs, raised |-> FALSE]
      [] falla = "error" -> [files |-> fs, raised |-> TRUE]
      [] falla = "truncado" -> [files |-> (nombre :> <<>>) @@ fs, raised |-> TRUE]

\* procesar_excel up to line 293, which touches no file: the message it logs
\* when it returns there ("listo" when it goes on to write), whether an
\* exception leaves it, the month, pc_df, diario_lines and the chart lines
Transformado(l, r, mes, pcdf, dl, pl) ==
    [log |-> l, raised |-> r, mes |-> mes, pc_df |-> pcdf, diario_lines |-> dl, plan_lines |-> pl]

Transformar(a) ==
    LET mes == extraer_mes_archivo(a.nombre) IN
    IF mes = <<>> THEN Transformado("sin_mes", FALSE, mes, <<>>, <<>>, <<>>)
    ELSE IF ~a.legible THEN Transformado("error_lectura", FALSE, mes, <<>>, <<>>, <<>>)
    ELSE IF ColCuentaPC(a.pc.columns) > Len(a.pc.columns) \/ ColNombreCuenta(a.pc.columns) > Len(a.pc.columns)
    THEN Transformado("IndexError", TRUE, mes, <<>>, <<>>, <<>>)
    ELSE
    LET pcdf == PlanDeCuentas(a.pc)
        col == ColumnasDiario(a.diario.columns)
    IN
    IF FaltanColumnas(col) THEN Transformado("faltan_columnas", FALSE, mes, pcdf, <<>>, <<>>)
    ELSE
    LET dia_final == ultimo_dia_mes(ANIO, IntMes(mes))
        periodo_plan == Digits(ANIO) \o mes \o Fmt0d(dia_final, 2)
        cuentas_validas == {pcdf[i].codigo_cuenta : i \in 1..Len(pcdf)}
    IN  Transformado("listo", FALSE, mes, pcdf,
                     Recorrer(a.diario.rows, col, mes, dia_final, cuentas_validas, <<>>, <<>>),
                     PlanLines(pcdf, ColNombreCuenta(a.pc.columns), periodo_plan))

\* what a call of procesar_excel leaves: the message it logged last, whether an
\* exception left it, its tables and lists, and the files
Resultado(l, r, pcdf, dl, pl, fs) ==
    [log |-> l, raised |-> r, pc_df |-> pcdf, diario_lines |-> dl, plan_lines |-> pl, files |-> fs]

\* lines 294-312 after Transformar: the two files are written, diario first;
\* plan_lines is built between the two writes
Escribir(t, fs, io) ==
    IF t.log # "listo" THEN Resultado(t.log, t.raised, t.pc_df, <<>>, <<>>, fs)
    ELSE
    LET w1 == WriteText(fs, ArchivoDiario(t.mes), Contenido(t.diario_lines), io.diario) IN
    IF w1.raised THEN Resultado("OSError", TRUE, t.pc_df, t.diario_lines, <<>>, w1.files)
    ELSE
    LET w2 == WriteText(w1.files, ArchivoPlan(t.mes), Contenido(t.plan_lines), io.plan) IN
    IF w2.raised THEN Resultado("OSError", TRUE, t.pc_df, t.diario_lines, t.plan_lines, w2.files)
    ELSE Resultado("escrito", FALSE, t.pc_df, t.diario_lines, t.plan_lines, w2.files)

procesar_excel(a, fs, io) == Escribir(Transformar(a), fs, io)

---------------------------------------------------------------------------
\* main (lines 318-323)

Fallas == {"ok", "error", "truncado"}

\* what the two write_text calls of one procesar_excel call meet; the second is
\* only reached when the first succeeds
IOs == {io \in [diario : Fallas, plan : Fallas] : io.diario = "ok" \/ io.plan = "ok"}

\* the workbooks of S, each with what Transformar makes of it
Casos(S) == {[a |-> a, t |-> Transformar(a)] : a \in S}

\* one turn of the loop of main: procesar_excel on the next workbook, c.a, with
\* c.t = Transformar(c.a); an exception that leaves procesar_excel leaves main
Procesar(c, io) ==
    /\ pc = "main"
    /\ idx < n_archivos
    /\ LET r == Escribir(c.t, files, io)
       IN  /\ log' = r.log
           /\ pc_df' = r.pc_df
           /\ diario_lines' = r.diario_lines
           /\ plan_lines' = r.plan_lines
           /\ files' = r.files
           /\ pc' = IF r.raised THEN "crashed" ELSE "main"
    /\ archivo' = c.a
    /\ idx' = idx + 1
    /\ UNCHANGED <<n_archivos, ref_raw, doc, pc_raw>>

\* the loop of main is over
Terminar ==
    /\ pc = "main"
    /\ idx = n_archivos
    /\ pc' = "done"
    /\ UNCHANGED <<n_archivos, idx, archivo, log, pc_df, diario_lines, plan_lines, files, ref_raw, doc, pc_raw>>

InitMain(n) ==
    /\ pc = "main"
    /\ n_archivos = n
    /\ idx = 0
    /\ archivo = NoArchivo
    /\ log = "none"
    /\ pc_df = <<>>
    /\ diario_lines = <<>>
    /\ plan_lines = <<>>
    /\ files = <<>>
    /\ ref_raw = NaN
    /\ doc = <<>>
    /\ pc_raw = <<>>

---------------------------------------------------------------------------
\* Sheets and workbooks the specifications draw from

PlanColumnas == <<<<"C", "u", "e", "n", "t", "a">>, <<"D", "e", "s", "c", "r", "i", "p", "c", "i", "o", "n">>, <<"C", "u", "e", "n", "t", "a", " ", "P", "e", "r", "u", "a", "n", "a">>, <<"N", "o", "m", "b", "r", "e", " ", "d", "e", " ", "C", "u", "e", "n", "t", "a", " ", "C", "o", "n", "t", "a", "b", "l", "e">>>>

\* the same sheet with other headers: both columns are found by position
PlanColumnasSinNombre == <<<<"A", "c", "c", "o", "u", "n", "t">>, <<"D", "e", "s", "c", "r", "i", "p", "t", "i", "o", "n">>, <<"L", "o", "c", "a", "l", " ", "a", "c", "c", "o", "u", "n", "t">>, <<"L", "o", "c", "a", "l", " ", "n", "a", "m", "e">>>>

PlanCodigos == {Flotante(400100), Texto(<<"4", "0", "0", "1">>), NaN}

PlanCodigosMas == PlanCodigos \cup {Texto(<<" ", "5", "a", " ">>), Flotante(400150), Entero(4001), Texto(<<>>)}

PlanNombres == {Texto(<<"A", "B">>), Texto(<<"C", "D">>), Texto(<<"A", "B", "C">>), Texto(<<"E", " ", " ", " ">>)}

PlanFila(codigo, nombre) == <<Texto(<<"x">>), Texto(<<"y">>), codigo, nombre>>

PlanFilas == {PlanFila(c, n) : c \in PlanCodigos, n \in PlanNombres}

PlanFilasMas == {PlanFila(c, n) : c \in PlanCodigosMas, n \in PlanNombres \cup {NaN}}

RECURSIVE SeqsHasta(_, _)
SeqsHasta(S, n) ==
    IF n = 0 THEN {<<>>}
    ELSE LET menores == SeqsHasta(S, n - 1)
         IN  menores \cup {Append(s, x) : s \in {m \in menores : Len(m) = n - 1}, x \in S}

DiarioColumnas ==
    <<<<"J", "o", "u", "r", "n", "a", "l", " ", "T", "y", "p", "e">>, <<"J", "o", "u", "r", "n", "a", "l", " ", "N", "u", "m", "b", "e", "r">>, <<"T", "r", "a", "n", "s", "a", "c", "t", "i", "o", "n", " ", "D", "a", "t", "e">>, <<"C", "u", "e", "n", "t", "a", " ", "P", "e", "r", "u", "a", "n", "a">>, <<"D", "e", "s", "c", "r", "i", "p", "t", "i", "o", "n">>,
      <<"T", "r", "a", "n", "s", "a", "c", "t", "i", "o", "n", " ", " ", "A", "m", "o", "u", "n", "t">>, <<"D", "e", "b", "i", "t", "/", "C", "r", "e", "d", "i", "t">>, <<"T", "r", "a", "n", "s", "a", "c", "t", "i", "o", "n", " ", "C", "u", "r", "r", "e", "n", "c", "y", " ", "C", "o", "d", "e">>, <<"T", "r", "a", "n", "s", "a", "c", "t", "i", "o", "n", " ", "R", "e", "f", "e", "r", "e", "n", "c", "e">>>>

\* the cells of a diario row, in the order of DiarioColumnas
DiarioFila(f) == <<f.jtype, f.jnum, f.fecha, f.cuenta, f.glosa, f.monto, f.flag, f.moneda, f.ref>>

\* columns and rows without the column at position k
SinColumna(s, k) == SubSeq(s, 1, k - 1) \o SubSeq(s, k + 1, Len(s))

FilaBase ==
    [jtype |-> Texto(<<"G", "J">>), jnum |-> Entero(7), fecha |-> Fecha(2020, 3, 15), cuenta |-> Texto(<<"4", "0", "0", "1">>),
     glosa |-> Texto(<<"P", "a", "g", "o">>), monto |-> Flotante(-15050), flag |-> Texto(<<"D">>), moneda |-> Texto(<<"U", "S", "D">>),
     ref |-> Texto(<<"F", "0", "0", "1", "-", "5", "0", "6", "8">>)]

PlanBase ==
    [columns |-> PlanColumnas,
     rows |-> <<PlanFila(Flotante(400100), Texto(<<"C", "A", "J", "A">>)),
                PlanFila(Texto(<<"5", "0", "0", "1">>), Texto(<<"C", "A", "P", "I", "T", "A", "L">>)),
                PlanFila(Texto(<<"4", "0", "0", "1">>), Texto(<<"C", "A", "J", "A", " ", "Y", " ", "B", "A", "N", "C", "O", "S">>))>>]

Nombre(mes_nombre) == <<"D", "I", "A", "R", "I", "O", ",", " ">> \o mes_nombre \o <<" ", "2", "0", "2", "0", "_", "2">>

\* a workbook: the stem of its name, whether its sheets can be read, sheets 5 and 6
Libro(mes_nombre, columns, rows) ==
    [nombre |-> Nombre(mes_nombre), legible |-> TRUE,
     diario |-> [columns |-> columns, rows |-> rows], pc |-> PlanBase]

---------------------------------------------------------------------------
\* Specification of parse_doc alone

RefAlphabet == {"F", "b", "0", "7", "-", " "}

RECURSIVE Textos(_, _)
Textos(alfabeto, n) ==
    IF n = 0 THEN {<<>>}
    ELSE LET menores == Textos(alfabeto, n - 1)
         IN  menores \cup {Append(s, c) : s \in {m \in menores : Len(m) = n - 1}, c \in alfabeto}

RefLargos ==
    {Rep("A", n1) \o <<"-">> \o Rep(d, n2) :
        n1 \in {1, SerieMax, SerieMax + 1}, n2 \in {1, NumeroMax, NumeroMax + 1}, d \in {"0", "7"}}
    \cup {<<"F", "0", "0", "1">> \o Rep(d, n2) : n2 \in {1, NumeroMax, NumeroMax + 1}, d \in {"0", "7"}}
    \cup {Rep(d, n2) : n2 \in {NumeroMax, NumeroMax + 1}, d \in {"0", "7"}}
    \cup {<<"F", "0", "0", "1", "-", "5", "0", "6", "8">>, <<"F", "0", "0", "1", "/", "5", "0", "6", "8">>, <<"f", "0", "0", "1", " ", "5", "0", "6", "8">>, <<"0", "0", "0", "0", "1", "2", "3">>, <<"F", "0", "0", "1", "5", "0", "6", "8">>, <<"1", "2", ".", "0">>, <<"T", "1", "-", "0">>, <<"B", "/", "7">>}

RefInputs ==
    {NaN, Entero(123), Flotante(12300)}
    \cup {Texto(s) : s \in Textos(RefAlphabet, MaxRefLen)}
    \cup {Texto(s) : s \in RefLargos}

InitParse ==
    /\ pc = "call"
    /\ ref_raw \in RefInputs
    /\ doc = <<>>
    /\ pc_raw = <<>>
    /\ pc_df = <<>>
    /\ MainIdle

ParseDoc ==
    /\ pc = "call"
    /\ doc' = parse_doc(ref_raw)
    /\ pc' = "ret"
    /\ UNCHANGED <<ref_raw, pc_raw, pc_df>>
    /\ MainUnchanged

NextParse == ParseDoc

SpecParse == InitParse /\ [][NextParse]_vars

---------------------------------------------------------------------------
\* Specification of the chart-table build alone

PlanSheets ==
    {[columns |-> PlanColumnas, rows |-> rs] : rs \in SeqsHasta(PlanFilas, MaxChart)}
    \cup {[columns |-> PlanColumnasSinNombre, rows |-> rs] : rs \in SeqsHasta(PlanFilasMas, 2)}

InitChart ==
    /\ pc = "call"
    /\ pc_raw \in PlanSheets
    /\ pc_df = <<>>
    /\ ref_raw = NaN
    /\ doc = <<>>
    /\ MainIdle

ConstruirPlan ==
    /\ pc = "call"
    /\ pc_df' = PlanDeCuentas(pc_raw)
    /\ pc' = "ret"
    /\ UNCHANGED <<pc_raw, ref_raw, doc>>
    /\ MainUnchanged

NextChart == ConstruirPlan

SpecChart == InitChart /\ [][NextChart]_vars

---------------------------------------------------------------------------
\* Specification of main on one workbook of one diario row: the row varies in
\* its date (against every reporting month), its amount and indicator, its
\* journal number, its description, its currency and its reference

MesesNombres == {MESES[i][1] : i \in 1..Len(MESES)}

FechasModelo ==
    {Fecha(y, m, d) : y \in {ANIO - 1, ANIO, ANIO + 1}, m \in 1..12, d \in {9}}
    \cup {NaN, Texto(<<"s", "i", "n", " ", "f", "e", "c", "h", "a">>)}

MontosModelo ==
    {Flotante(-15050), Flotante(15050), Flotante(0), Entero(0), Entero(20), Entero(-3),
     NaN, Texto(<<"a", "b", "c">>), Texto(<<"1", "2", ".", "5">>), Texto(<<" ", "-", "7", " ">>), Texto(<<>>)}

FlagsModelo == {Texto(<<"D">>), Texto(<<" ", "c", "r", "e", "d", "i", "t">>), Texto(<<"x">>), Texto(<<>>), NaN}

JnumModelo ==
    {NaN, Entero(7), Flotante(700), Entero(10), Flotante(1000), Entero(100), Entero(0),
     Entero(105), Flotante(10500), Texto(<<"J", "-", "5">>)}

GlosasModelo ==
    {Texto(<<"P", "a", "g", "o">>), Texto(<<" ", " ", "P", "a", "g", "o", " ", "d", "e", " ", "f", "a", "c", "t", "u", "r", "a", " ", " ">>), Texto(<<>>), NaN,
     Texto(Rep("x", 200)), Texto(Rep("x", 201)), Texto(Rep("x", 199) \o <<" ">> \o <<"y", "z">>)}

MonedasModelo == {Texto(<<"u", "s", "d">>), Texto(<<"S", "O", "L", "E", "S">>), Texto(<<"p", "e", "n">>), Texto(<<"e", "u", "r">>), Texto(<<"e">>), Texto(<<>>), NaN}

RefsModelo ==
    {Texto(<<"F", "0", "0", "1", "-", "5", "0", "6", "8">>), Texto(<<"B", "0", "0", "1", "7">>), Texto(<<"t", "-", "1">>), Texto(<<"0", "0", "0", "0", "1", "2", "3">>), Texto(<<"F", "-">>), Texto(<<>>), NaN}

\* the diario with "Base Amount" for the amount and no indicator, currency or reference column
DiarioColumnasMinimas ==
    <<<<"J", "O", "U", "R", "N", "A", "L", " ", "T", "Y", "P", "E">>, <<"j", "o", "u", "r", "n", "a", "l", " ", "n", "u", "m", "b", "e", "r">>, <<"T", "r", "a", "n", "s", "a", "c", "t", "i", "o", "n", " ", "D", "a", "t", "e">>, <<"C", "u", "e", "n", "t", "a", " ", " ", "P", "e", "r", "u", "a", "n", "a">>, <<"D", "e", "s", "c", "r", "i", "p", "t", "i", "o", "n", ".", "1">>,
      <<"B", "a", "s", "e", " ", "A", "m", "o", "u", "n", "t">>>>

LibroDeFila(mes_nombre, f) == Libro(mes_nombre, DiarioColumnas, <<DiarioFila(f)>>)

ArchivosFilas ==
    {LibroDeFila(mn, [FilaBase EXCEPT !.fecha = x]) : mn \in MesesNombres, x \in FechasModelo}
    \cup {LibroDeFila(<<"M", "A", "R", "Z", "O">>, [FilaBase EXCEPT !.monto = m, !.flag = x]) :
            m \in MontosModelo, x \in FlagsModelo}
    \cup {Libro(<<"M", "A", "R", "Z", "O">>, DiarioColumnasMinimas,
                <<SubSeq(DiarioFila([FilaBase EXCEPT !.monto = m]), 1, 6)>>) : m \in MontosModelo}
    \cup {LibroDeFila(<<"M", "A", "R", "Z", "O">>, [FilaBase EXCEPT !.jnum = x]) : x \in JnumModelo}
    \cup {LibroDeFila(<<"M", "A", "R", "Z", "O">>, [FilaBase EXCEPT !.glosa = x]) : x \in GlosasModelo}
    \cup {LibroDeFila(<<"M", "A", "R", "Z", "O">>, [FilaBase EXCEPT !.moneda = x]) : x \in MonedasModelo}
    \cup {LibroDeFila(<<"M", "A", "R", "Z", "O">>, [FilaBase EXCEPT !.ref = x]) : x \in RefsModelo}

InitFilas == InitMain(1)

CasosFilas == Casos(ArchivosFilas)

NextFilas ==
    \/ \E c \in CasosFilas, io \in IOs : Procesar(c, io)
    \/ Terminar

SpecFilas == InitFilas /\ [][NextFilas]_vars

---------------------------------------------------------------------------
\* Specification of main on a batch of workbooks

\* rows of two journal types on two accounts of the chart, and a row on an
\* account the chart does not have
FilasLote ==
    {FilaBase,
     [FilaBase EXCEPT !.cuenta = Flotante(500100), !.jtype = Texto(<<" ", "a", "p", " ">>)],
     [FilaBase EXCEPT !.cuenta = Texto(<<"9", "9", "9", "9">>)]}

LibrosLote ==
    {Libro(<<"M", "A", "R", "Z", "O">>, DiarioColumnas, rs) : rs \in SeqsHasta({DiarioFila(f) : f \in FilasLote}, MaxRows)}

\* the positions, in DiarioColumnas, of the columns the script requires
PosicionesRequeridas == 1..6

LibrosSinColumna ==
    {Libro(<<"M", "A", "R", "Z", "O">>, SinColumna(DiarioColumnas, k), <<SinColumna(DiarioFila(FilaBase), k)>>) :
        k \in PosicionesRequeridas}

\* a row without account between two rows of one journal type
LibroSinCuenta ==
    Libro(<<"M", "A", "R", "Z", "O">>, DiarioColumnas,
          <<DiarioFila([FilaBase EXCEPT !.jtype = Texto(<<"g", "j">>)]),
            DiarioFila([FilaBase EXCEPT !.cuenta = NaN]),
            DiarioFila(FilaBase)>>)

LibroEnero == Libro(<<"e", "n", "e", "r", "o">>, DiarioColumnas, <<DiarioFila(FilaBase)>>)

LibroSinMes == Libro(<<"C", "I", "E", "R", "R", "E">>, DiarioColumnas, <<DiarioFila(FilaBase)>>)

LibroIlegible == [Libro(<<"M", "A", "R", "Z", "O">>, DiarioColumnas, <<DiarioFila(FilaBase)>>) EXCEPT !.legible = FALSE]

\* a chart sheet of two columns, none of them named
LibroPlanCorto ==
    [Libro(<<"M", "A", "R", "Z", "O">>, DiarioColumnas, <<DiarioFila(FilaBase)>>) EXCEPT
        !.pc = [columns |-> <<<<"C", "o", "d", "e">>, <<"N", "a", "m", "e">>>>, rows |-> <<<<Texto(<<"4", "0", "0", "1">>), Texto(<<"C", "A", "J", "A">>)>>>>]]

Archivos ==
    LibrosLote \cup LibrosSinColumna \cup {LibroSinCuenta, LibroEnero, LibroSinMes, LibroIlegible, LibroPlanCorto}

Init == \E n \in 0..MaxBatch : InitMain(n)

CasosLote == Casos(Archivos)

Next ==
    \/ \E c \in CasosLote, io \in IOs : Procesar(c, io)
    \/ Terminar

Spec == Init /\ [][Next]_vars

---------------------------------------------------------------------------
\* C3: parse_doc

\* the text parse_doc works on: trimmed, upper-cased, "/" and " " turned into "-"
RefNormal(x) == Replace(Replace(Upper(Strip(PyStr(x))), "/", <<"-">>), " ", <<"-">>)

\* r is SERIES-NUMBER with the hyphen at k
FormaSerieNumero(r, k) ==
    /\ r[k] = "-"
    /\ k - 1 \in 1..10
    /\ Len(r) - k \in 1..20
    /\ \A i \in 1..(k - 1) : IsUpper(r[i]) \/ IsDigit(r[i])
    /\ \A i \in (k + 1)..Len(r) : IsDigit(r[i])

\* r is one letter, 3 digits and 1-20 digits more
FormaCompacta(r) ==
    /\ Len(r) \in 5..24
    /\ IsUpper(r[1])
    /\ \A i \in 2..Len(r) : IsDigit(r[i])

\* a digit text without its leading zeros, "0" when it is all zeros
NumeroEsperado(s) ==
    IF \A i \in 1..Len(s) : s[i] = "0" THEN <<"0">>
    ELSE LET p == CHOOSE i \in 1..Len(s) : s[i] # "0" /\ \A j \in 1..(i - 1) : s[j] = "0"
         IN  SubSeq(s, p, Len(s))

SinCeroInicial(s) == s = <<"0">> \/ (s # <<>> /\ s[1] # "0")

\* C3: parse_doc returns the result of the first rule that applies: null or empty
\* -> ("", ""); SERIES-NUMBER -> (SERIES, NUMBER without leading zeros); compact
\* letter+3 digits+digits -> (4-character series, rest without leading zeros);
\* all digits -> ("", digits without leading zeros); else ("", "0").  A
\* SERIES-NUMBER input yields a number with no leading zero unless it is "0", and
\* the number is never empty when the series is not.
C3_ParseDocRules ==
    pc = "ret" =>
        LET r == RefNormal(ref_raw) IN
        /\ IF isna(ref_raw) \/ r = <<>> THEN doc = <<<<>>, <<>>>>
           ELSE IF \E k \in 1..Len(r) : FormaSerieNumero(r, k)
           THEN \A k \in 1..Len(r) : FormaSerieNumero(r, k) =>
                    /\ doc = <<SubSeq(r, 1, k - 1), NumeroEsperado(SubSeq(r, k + 1, Len(r)))>>
                    /\ SinCeroInicial(doc[2])
           ELSE IF FormaCompacta(r)
           THEN doc = <<SubSeq(r, 1, 4), NumeroEsperado(SubSeq(r, 5, Len(r)))>>
           ELSE IF r # <<>> /\ \A i \in 1..Len(r) : IsDigit(r[i])
           THEN doc = <<<<>>, NumeroEsperado(r)>>
           ELSE doc = <<<<>>, <<"0">>>>
        /\ doc[1] # <<>> => doc[2] # <<>>

\* a SERIES-NUMBER reference whose number is all zeros has been parsed
C3_Witness ==
    /\ pc = "ret"
    /\ ref_raw = Texto(<<"F", "0", "-", "0", "0">>)
    /\ doc = <<<<"F", "0">>, <<"0">>>>

---------------------------------------------------------------------------
\* C4: the chart table

\* the normalized codes and the trimmed display names of the source rows of sheet 6
CodigosFuente(sheet) ==
    LET cc == ColCuentaPC(sheet.columns)
    IN  [i \in 1..Len(sheet.rows) |-> normalizar_codigo(FillNa(sheet.rows[i][cc]))]

NombresFuente(sheet) ==
    LET cn == ColNombreCuenta(sheet.columns)
    IN  [i \in 1..Len(sheet.rows) |-> Strip(PyStr(FillNa(sheet.rows[i][cn])))]

\* the source row the claim retains for the code of row i: the first of the rows
\* with that code whose trimmed name is longest
Retenida(cod, nom, i) ==
    LET iguales == {j \in 1..Len(cod) : cod[j] = cod[i]}
        largas == {j \in iguales : \A k \in iguales : Len(nom[j]) >= Len(nom[k])}
    IN  CHOOSE j \in largas : \A k \in largas : j <= k

\* C4: after the chart-table build no retained row has an empty code, there is
\* exactly one retained row per distinct normalized code, and it is the
\* first-occurring row with the longest trimmed name among the rows of that code.
C4_ChartDedup ==
    pc = "ret" =>
        LET cod == CodigosFuente(pc_raw)
            nom == NombresFuente(pc_raw)
            cn == ColNombreCuenta(pc_raw.columns)
        IN
        /\ \A i \in 1..Len(pc_df) : pc_df[i].codigo_cuenta # <<>>
        /\ \A i, j \in 1..Len(pc_df) : pc_df[i].codigo_cuenta = pc_df[j].codigo_cuenta => i = j
        /\ \A i \in 1..Len(cod) :
              cod[i] # <<>> =>
                  \E k \in 1..Len(pc_df) :
                      /\ pc_df[k].codigo_cuenta = cod[i]
                      /\ pc_df[k].idx = Retenida(cod, nom, i) - 1
                      /\ NombreTemp(pc_df[k], cn) = nom[Retenida(cod, nom, i)]
        /\ \A k \in 1..Len(pc_df) : \E i \in 1..Len(cod) : cod[i] = pc_df[k].codigo_cuenta

\* float 4001.0 and text "4001" with names of equal length, after a shorter
\* name: one row is kept, the first of the two longest
C4_Witness ==
    /\ pc = "ret"
    /\ pc_raw.rows = <<PlanFila(Texto(<<"4", "0", "0", "1">>), Texto(<<"E", " ", " ", " ">>)),
                       PlanFila(Flotante(400100), Texto(<<"A", "B">>)),
                       PlanFila(Texto(<<"4", "0", "0", "1">>), Texto(<<"C", "D">>))>>
    /\ Len(pc_df) = 1
    /\ pc_df[1].idx = 1

---------------------------------------------------------------------------
\* Claims on the journal line of one diario row (SpecFilas: DiarioColumnas and
\* DiarioColumnasMinimas hold the journal number in column 2, the date in
\* column 3, the description in column 5, the amount in column 6; DiarioColumnas
\* holds the indicator in column 7)

\* the row of the workbook, once a journal line was emitted for it
FilaEmitida == archivo.diario.rows[1]

\* days of the months of 2020
DiasDe2020 == <<31, 29, 31, 30, 31, 30, 31, 31, 30, 31, 30, 31>>

\* d/m/y as dd/mm/yyyy
TextoDMY(d, m, y) == Fmt0d(d, 2) \o <<"/">> \o Fmt0d(m, 2) \o <<"/">> \o Fmt0d(y, 4)

\* y m as yyyymm00
TextoPeriodo(y, m) == Fmt0d(y, 4) \o Fmt0d(m, 2) \o <<"0", "0">>

\* C1: with reporting year Y = 2020, reporting month M and L the last day of M:
\* unparseable date -> ("1", Y M 00, L/M/Y); year Y, month < M -> ("8", Y month 00,
\* the date); year Y, month M -> ("1", Y M 00, the date); year Y, month > M ->
\* ("1", Y M 00, L/M/Y); year < Y -> ("8", year month 00, the date); year > Y ->
\* ("1", Y M 00, L/M/Y); nothing else is produced.
C1_PeriodClassification ==
    \A i \in 1..Len(diario_lines) :
        LET x == FilaEmitida[3]
            M == IntMes(extraer_mes_archivo(archivo.nombre))
            periodo == diario_lines[i][1]
            fecha == diario_lines[i][15]
            estado == diario_lines[i][21]
            declarado == /\ estado = <<"1">>
                         /\ periodo = TextoPeriodo(2020, M)
                         /\ fecha = TextoDMY(DiasDe2020[M], M, 2020)
            atrasado == /\ estado = <<"8">>
                        /\ periodo = TextoPeriodo(x.y, x.m)
                        /\ fecha = TextoDMY(x.d, x.m, x.y)
            vigente == /\ estado = <<"1">>
                       /\ periodo = TextoPeriodo(2020, M)
                       /\ fecha = TextoDMY(x.d, x.m, x.y)
        IN  IF x.t # "date" THEN declarado
            ELSE IF x.y = 2020 /\ x.m < M THEN atrasado
            ELSE IF x.y = 2020 /\ x.m = M THEN vigente
            ELSE IF x.y = 2020 /\ x.m > M THEN declarado
            ELSE IF x.y < 2020 THEN atrasado
            ELSE declarado

\* a row of January 2020 in the workbook of March: status "8", period 20200100
C1_Witness ==
    /\ Len(diario_lines) = 1
    /\ archivo.nombre = Nombre(<<"M", "A", "R", "Z", "O">>)
    /\ FilaEmitida[3] = Fecha(2020, 1, 9)
    /\ diario_lines[1][21] = <<"8">>
    /\ diario_lines[1][1] = <<"2", "0", "2", "0", "0", "1", "0", "0">>
    /\ diario_lines[1][15] = <<"0", "9", "/", "0", "1", "/", "2", "0", "2", "0">>

\* an amount field of a line that is a number >= 0 with two decimals
ImporteNoNegativo(s) ==
    /\ Len(s) >= 4
    /\ s[Len(s) - 2] = "."
    /\ \A k \in 1..Len(s) : k # Len(s) - 2 => IsDigit(s[k])

ImporteCero(s) == s = <<"0", ".", "0", "0">>

\* the source amount is zero, or cannot be read as a number
MontoCeroOIlegible(x) ==
    \/ x.t = "nan"
    \/ x.t = "int" /\ x.n = 0
    \/ x.t = "float" /\ x.c = 0
    \/ x.t = "str" /\ x.s \notin {<<"1", "2", ".", "5">>, <<" ", "-", "7", " ">>}

\* C2: on every journal line debit >= 0, credit >= 0, never both nonzero, both
\* zero only when the source amount is zero or unparseable (which defaults to
\* 0); a negative amount without indicator gives debit 0 and credit the magnitude.
C2_DebitCredit ==
    \A i \in 1..Len(diario_lines) :
        LET debe == diario_lines[i][18]
            haber == diario_lines[i][19]
            x == FilaEmitida[6]
        IN  /\ ImporteNoNegativo(debe)
            /\ ImporteNoNegativo(haber)
            /\ ImporteCero(debe) \/ ImporteCero(haber)
            /\ (ImporteCero(debe) /\ ImporteCero(haber)) <=> MontoCeroOIlegible(x)
            /\ (x = Flotante(-15050) /\ archivo.diario.columns = DiarioColumnasMinimas)
                  => (debe = <<"0", ".", "0", "0">> /\ haber = <<"1", "5", "0", ".", "5", "0">>)

\* C8: the description field of every journal line is at most 200 characters long.
C8_DescriptionLimit ==
    \A i \in 1..Len(diario_lines) : Len(diario_lines[i][16]) <= 200

\* C10: the correlative is "M" followed by the journal number as written, only a
\* float suffix ".0" removed: "M" and the decimal digits of n for the integer
\* journal number n, stored as an integer or as the float n.0; "M" alone when
\* the journal number is empty.
C10_Correlative ==
    \A i \in 1..Len(diario_lines) :
        LET x == FilaEmitida[2]
            correlativo == diario_lines[i][3]
        IN  /\ x.t = "nan" => correlativo = <<"M">>
            /\ x.t = "int" => correlativo = <<"M">> \o Digits(x.n)
            /\ (x.t = "float" /\ x.c % 100 = 0) => correlativo = <<"M">> \o Digits(x.c \div 100)

---------------------------------------------------------------------------
\* Claims on a batch of workbooks (Spec)

\* C5: a workbook whose diario lacks a required column is given up before any
\* output is written: the call creates or overwrites neither of the two files.
C5_NoPartialOutput ==
    [][(idx' = idx + 1 /\ archivo' \in LibrosSinColumna) => files' = files]_vars

\* after a workbook left its two files, a workbook without a required column
\* was given up and the files are still there
C5_Witness ==
    /\ archivo \in LibrosSinColumna
    /\ log = "faltan_columnas"
    /\ idx = 2
    /\ ArchivoDiario(<<"0", "3">>) \in DOMAIN files
    /\ ArchivoPlan(<<"0", "3">>) \in DOMAIN files

\* C6: main ends only when every workbook of the batch has been attempted,
\* whatever the outcome of the workbooks before it.
C6_EveryWorkbookAttempted ==
    pc \in {"done", "crashed"} => idx = n_archivos

\* C7, as claimed: a chart line is produced only for a chart entry that some
\* emitted journal line of the workbook uses.
C7_OnlyReferencedEntries ==
    log = "escrito" =>
        \A i \in 1..Len(plan_lines) :
            \E j \in 1..Len(diario_lines) : diario_lines[j][4] = plan_lines[i][2]

\* C7, amended: a chart line is produced exactly once for each entry of the
\* validated chart table, used by a journal line or not; so every account of an
\* emitted journal line has exactly one chart line.
C7_OneLinePerChartEntry ==
    log = "escrito" =>
        /\ Len(plan_lines) = Len(pc_df)
        /\ \A k \in 1..Len(pc_df) :
              Cardinality({i \in 1..Len(plan_lines) : plan_lines[i][2] = pc_df[k].codigo_cuenta}) = 1
        /\ \A j \in 1..Len(diario_lines) :
              Cardinality({i \in 1..Len(plan_lines) : plan_lines[i][2] = diario_lines[j][4]}) = 1
        /\ files[ArchivoPlan(extraer_mes_archivo(archivo.nombre))] = Contenido(plan_lines)

\* a workbook without journal line left the chart lines of both chart entries
C7_Witness ==
    /\ log = "escrito"
    /\ diario_lines = <<>>
    /\ Len(pc_df) = 2
    /\ Len(plan_lines) = 2

\* k as at least 3 digits
TresDigitos(k) ==
    IF k < 10 THEN <<"0", "0">> \o Digits(k) ELSE IF k < 100 THEN <<"0">> \o Digits(k) ELSE Digits(k)

\* the journal type and the account of a diario row under DiarioColumnas
TipoDeFila(row) == Upper(Strip(PyStr(row[1])))

CuentaDeFila(row) == normalizar_codigo(row[4])

\* C9: within one workbook the k-th eligible row (account code not empty and in
\* the validated chart table) of journal type T gets the code T followed by k in
\* at least 3 digits; skipped rows advance no counter; every workbook starts
\* each type at 1 whatever was processed before it.
C9_RunningCounterPerType ==
    log \in {"escrito", "OSError"} =>
        LET rows == archivo.diario.rows
            validas == {pc_df[k].codigo_cuenta : k \in 1..Len(pc_df)}
            Elegible(r) == CuentaDeFila(rows[r]) # <<>> /\ CuentaDeFila(rows[r]) \in validas
            E == SelectSeq([r \in 1..Len(rows) |-> r], Elegible)
        IN  /\ Len(diario_lines) = Len(E)
            /\ \A i \in 1..Len(E) :
                  LET T == TipoDeFila(rows[E[i]])
                      k == Cardinality({j \in 1..i : TipoDeFila(rows[E[j]]) = T})
                  IN  diario_lines[i][2] = T \o TresDigitos(k)

\* the second workbook of a batch, after the workbook of January left its
\* lines: its rows of type GJ around a skipped row are numbered 1 and 2
C9_Witness ==
    /\ idx = 2
    /\ log = "escrito"
    /\ ArchivoDiario(<<"0", "1">>) \in DOMAIN files
    /\ archivo = LibroSinCuenta
    /\ Len(diario_lines) = 2
    /\ diario_lines[1][2] = <<"G", "J", "0", "0", "1">>
    /\ diario_lines[2][2] = <<"G", "J", "0", "0", "2">>

====
